---- MODULE Spec2Model ----
(***************************************************************************)
(* upload_directory of copy-to-gdrive.py: the walk over a local directory  *)
(* tree that creates Drive folders and uploads files, with the remote      *)
(* calls create_folder and upload_file succeeding or failing freely.       *)
(*                                                                         *)
(* A path string is a sequence of tokens: a name, or the separator.        *)
(***************************************************************************)
EXTENDS Integers, Sequences, FiniteSets, TLC

\* ---- bounds of the model ----
MaxDirs == 3          \* directories below the mirror root
MaxFiles == 2         \* files in the whole tree
MaxList == 2          \* names in the manifest of copy_files
MaxInDirs == 2        \* directories below the input directory of copy_files

\* ---- the values of the program ----
None == 0                         \* Python's None: "no parent" and "call failed"
CallerParentId == 1               \* the id given with --parent_folder_id
InputData == 1                    \* the validated arguments validate_inputs returns
DriveService == 1                 \* the client authenticate_google_drive returns
Names == {"a", "b"}               \* directory names of the local trees
FileNames == <<"f1", "f2", "f3", "f4">>
sep == "/"                        \* os.sep
local_directory == <<"r">>       \* the directory handed to upload_directory

VARIABLES
  fsdirs,             \* local filesystem: the directories (absolute path strings)
  nfiles,             \* local filesystem: number of files of each directory
  parent_folder_id,   \* argument of upload_directory
  stack,              \* os.walk: directories still to be yielded, next first
  root,               \* the directory os.walk yielded last
  visited,            \* history: the directories yielded so far, in order
  seg,                \* position of "for folder_name in folder_names"
  fpos,               \* position of "for file_name in files"
  current_folder_id,  \* local of upload_directory
  pc,                 \* "walk" | "resolve" | "upload" | "done" | "raised"
  calls,              \* history: the remote calls issued, in order
  log,                \* what the program printed
  validated_data,     \* __main__: the result of validate_inputs, None before it
  service,            \* __main__: the Drive client, None before authentication
  run,                \* which run of the mirror this is (1, or 2 when run again)
  run_first,          \* the number of remote calls issued by the runs before
  file_list,          \* copy_files: the names of the manifest
  indir,              \* copy_files: the file names of each directory of input_dir,
                      \*   in the order os.walk yields the directories
  cpos,               \* copy_files: position of "for file_name in file_list"
  cpc,                \* copy_files: "idle" | "search" | "copy" | "returned" | "raised"
  cfile_path,         \* copy_files: file_path, the result of find_file
  handled             \* history: what became of each name processed

mainvars == <<validated_data, service, run, run_first>>

copyvars == <<file_list, indir, cpos, cpc, cfile_path, handled>>

vars == <<fsdirs, nfiles, parent_folder_id, stack, root, visited, seg, fpos,
          current_folder_id, pc, calls, log, mainvars, copyvars>>

\* ---- paths ----
join(path, name) == path \o <<sep, name>>

basename(path) == path[Len(path)]

IsPrefix(p, q) == Len(p) <= Len(q) /\ SubSeq(q, 1, Len(p)) = p

\* os.path.relpath(path, start) for path = start or below it
relpath(path, start) ==
  IF path = start THEN <<".">> ELSE SubSeq(path, Len(start) + 2, Len(path))

IsName(t) == t # sep

\* str.split(os.sep): the names between the separators
split(s) == SelectSeq(s, IsName)

\* the absolute path string of a directory given by its names below the root
RECURSIVE AbsPath(_)
AbsPath(names) ==
  IF names = <<>> THEN local_directory
  ELSE join(AbsPath(SubSeq(names, 1, Len(names) - 1)), names[Len(names)])

\* ---- the local trees the model ranges over ----
RECURSIVE TreesUpTo(_)
TreesUpTo(n) ==
  IF n = 0 THEN {{<<>>}}
  ELSE LET prev == TreesUpTo(n - 1)
       IN  prev \cup UNION {{T \cup {Append(p, x)} : p \in T, x \in Names} : T \in prev}

Trees == {{AbsPath(p) : p \in T} : T \in TreesUpTo(MaxDirs)}

RECURSIVE SumOver(_, _)
SumOver(f, S) ==
  IF S = {} THEN 0
  ELSE LET x == CHOOSE y \in S : TRUE IN f[x] + SumOver(f, S \ {x})

FileCounts(D) == {f \in [D -> 0..MaxFiles] : SumOver(f, D) <= MaxFiles}

Perms(S) ==
  {s \in [1..Cardinality(S) -> S] : \A i, j \in 1..Cardinality(S) : i # j => s[i] # s[j]}

\* os.scandir: the subdirectories and the files of a directory
listdir(path) == {n \in Names : join(path, n) \in fsdirs}

files == [k \in 1..nfiles[root] |-> FileNames[k]]

relative_path == relpath(root, local_directory)

folder_names_LastOnly == <<relative_path[Len(relative_path)]>>

folder_names == split(relative_path)

FreshId == CallerParentId + 1 + Len(calls)

Init ==
  /\ fsdirs \in Trees
  /\ nfiles \in FileCounts(fsdirs)
  /\ parent_folder_id \in {None, CallerParentId}
  /\ stack = <<local_directory>>
  /\ root = local_directory
  /\ visited = <<>>
  /\ seg = 1
  /\ fpos = 1
  /\ current_folder_id = None
  /\ pc = "walk"
  /\ calls = <<>>
  /\ log = <<>>
  /\ validated_data = InputData
  /\ service = DriveService
  /\ run = 1
  /\ run_first = 0
  /\ file_list = <<>>
  /\ indir = <<>>
  /\ cpos = 1
  /\ cpc = "idle"
  /\ cfile_path = None
  /\ handled = <<>>

\* ---- the remote calls ----
\* A call's outcome is "ok" or "error" (service.files().create(...).execute()
\* returns the new object or raises).  Each operator gives what the function
\* returns (ret), what it prints (out) and whether an exception leaves it (exc).
create_folder_Uncaught(outcome, folder_name, parent, fresh) ==
  IF outcome = "ok"
  THEN [ret |-> fresh, out |-> <<>>, exc |-> FALSE]
  ELSE [ret |-> None, out |-> <<>>, exc |-> TRUE]

\* a create_folder that looks for a folder of that name under that parent
\* and returns its id instead of creating another
create_folder_Reuse(outcome, folder_name, parent, fresh) ==
  LET same == {i \in DOMAIN calls : /\ calls[i].op = "createFolder"
                                     /\ calls[i].name = folder_name
                                     /\ calls[i].parent = parent
                                     /\ calls[i].result # None}
  IN  IF outcome = "ok"
      THEN [ret |-> IF same = {} THEN fresh ELSE calls[CHOOSE i \in same : TRUE].result,
            out |-> <<>>, exc |-> FALSE]
      ELSE [ret |-> None, out |-> <<<<"Error creating folder", folder_name>>>>, exc |-> FALSE]

create_folder(outcome, folder_name, parent, fresh) ==
  IF outcome = "ok"
  THEN [ret |-> fresh, out |-> <<>>, exc |-> FALSE]
  ELSE [ret |-> None, out |-> <<<<"Error creating folder", folder_name>>>>, exc |-> FALSE]

upload_file(outcome, file_path, parent, fresh) ==
  IF outcome = "ok"
  THEN [ret |-> fresh, out |-> <<>>, exc |-> FALSE]
  ELSE [ret |-> None, out |-> <<<<"Error uploading file", file_path>>>>, exc |-> FALSE]

\* ---- the decisions of upload_directory ----
\* "if relative_path != '.'"
NeedsResolution_Always(rel) == TRUE

NeedsResolution(rel) == rel # <<".">>

\* "if folder_id is None: ... return"
FolderCheck_Ignored(folder_id) == "continue"

FolderCheck(folder_id) == IF folder_id = None THEN "return" ELSE "continue"

\* "current_folder_id = folder_id"
NextParent_Stale(current, folder_id) == current

NextParent(current, folder_id) == folder_id

\* "upload_file(service, file_path, current_folder_id)": the result is dropped
UploadCheck_Abort(file_id) == IF file_id = None THEN "return" ELSE "continue"

UploadCheck(file_id) == "continue"

\* where control goes once the segments of the directory are resolved, and
\* after each file: the next file, or back to os.walk
AfterFiles(path, pos) == IF pos > nfiles[path] THEN "walk" ELSE "upload"

\* ---- the steps of upload_directory ----
\* os.walk(topdown=False): a directory after its subdirectories
Walk_ChildrenFirst ==
  /\ pc = "walk"
  /\ stack # <<>>
  /\ LET top == Head(stack)
         pending == {n \in listdir(top) :
                       ~\E k \in DOMAIN visited : visited[k] = join(top, n)}
     IN  IF pending # {}
         THEN /\ \E order \in Perms(pending) :
                   stack' = [k \in 1..Len(order) |-> join(top, order[k])] \o stack
              /\ UNCHANGED <<root, visited, current_folder_id, seg, fpos, pc>>
         ELSE /\ stack' = Tail(stack)
              /\ root' = top
              /\ visited' = Append(visited, top)
              /\ current_folder_id' = parent_folder_id
              /\ seg' = 1
              /\ fpos' = 1
              /\ pc' = IF NeedsResolution(relpath(top, local_directory))
                       THEN "resolve" ELSE AfterFiles(top, 1)
  /\ UNCHANGED <<fsdirs, nfiles, parent_folder_id, calls, log, mainvars, copyvars>>

\* os.walk yields the next directory (top-down: a directory before its
\* subdirectories, the subdirectories in the order scandir lists them)
Walk ==
  /\ pc = "walk"
  /\ stack # <<>>
  /\ LET top == Head(stack)
     IN  /\ \E order \in Perms(listdir(top)) :
              stack' = [k \in 1..Len(order) |-> join(top, order[k])] \o Tail(stack)
         /\ root' = top
         /\ visited' = Append(visited, top)
         /\ current_folder_id' = parent_folder_id
         /\ seg' = 1
         /\ fpos' = 1
         /\ pc' = IF NeedsResolution(relpath(top, local_directory))
                  THEN "resolve" ELSE AfterFiles(top, 1)
  /\ UNCHANGED <<fsdirs, nfiles, parent_folder_id, calls, log, mainvars, copyvars>>

\* os.walk is exhausted: upload_directory returns
Return ==
  /\ pc = "walk"
  /\ stack = <<>>
  /\ pc' = "done"
  /\ UNCHANGED <<fsdirs, nfiles, parent_folder_id, stack, root, visited, seg, fpos,
                 current_folder_id, calls, log, mainvars, copyvars>>

\* one round of "for folder_name in folder_names"
CreateFolder ==
  /\ pc = "resolve"
  /\ \E outcome \in {"ok", "error"} :
       LET folder_name == folder_names[seg]
           r == create_folder(outcome, folder_name, current_folder_id, FreshId)
           check == FolderCheck(r.ret)
       IN  /\ calls' = Append(calls, [op |-> "createFolder", name |-> folder_name,
                                      parent |-> current_folder_id, result |-> r.ret,
                                      root |-> root, pos |-> seg])
           /\ IF r.exc
              THEN /\ pc' = "raised"
                   /\ log' = log \o r.out
                   /\ UNCHANGED <<current_folder_id, seg>>
              ELSE IF check = "return"
              THEN /\ pc' = "done"
                   /\ log' = log \o r.out \o <<<<"Failed to create folder", folder_name>>>>
                   /\ UNCHANGED <<current_folder_id, seg>>
              ELSE /\ current_folder_id' = NextParent(current_folder_id, r.ret)
                   /\ seg' = seg + 1
                   /\ log' = log \o r.out
                   /\ pc' = IF seg < Len(folder_names) THEN "resolve"
                            ELSE AfterFiles(root, 1)
  /\ UNCHANGED <<fsdirs, nfiles, parent_folder_id, stack, root, visited, fpos, mainvars, copyvars>>

\* one round of "for file_name in files"
UploadFile ==
  /\ pc = "upload"
  /\ \E outcome \in {"ok", "error"} :
       LET file_name == files[fpos]
           file_path == join(root, file_name)
           r == upload_file(outcome, file_path, current_folder_id, FreshId)
           check == UploadCheck(r.ret)
       IN  /\ calls' = Append(calls, [op |-> "uploadFile", name |-> basename(file_path),
                                      parent |-> current_folder_id, result |-> r.ret,
                                      root |-> root, pos |-> fpos])
           /\ log' = log \o r.out
           /\ IF r.exc
              THEN pc' = "raised" /\ UNCHANGED fpos
              ELSE IF check = "return"
              THEN pc' = "done" /\ UNCHANGED fpos
              ELSE fpos' = fpos + 1 /\ pc' = AfterFiles(root, fpos + 1)
  /\ UNCHANGED <<fsdirs, nfiles, parent_folder_id, stack, root, visited, seg,
                 current_folder_id, mainvars, copyvars>>

Next == Walk \/ Return \/ CreateFolder \/ UploadFile

Spec == Init /\ [][Next]_vars

\* upload_directory runs to its end: Python executes the next statement
FairSpec == Spec /\ WF_vars(Next)

\* ---- __main__: validate, authenticate, upload, report ----
\* the process starts: nothing validated, no client yet
MainInit ==
  /\ fsdirs \in Trees
  /\ nfiles \in FileCounts(fsdirs)
  /\ parent_folder_id \in {None, CallerParentId}
  /\ stack = <<local_directory>>
  /\ root = local_directory
  /\ visited = <<>>
  /\ seg = 1
  /\ fpos = 1
  /\ current_folder_id = None
  /\ pc = "validate"
  /\ calls = <<>>
  /\ log = <<>>
  /\ validated_data = None
  /\ service = None
  /\ run = 1
  /\ run_first = 0
  /\ file_list = <<>>
  /\ indir = <<>>
  /\ cpos = 1
  /\ cpc = "idle"
  /\ cfile_path = None
  /\ handled = <<>>

\* validate_inputs: InputData, or a printed error and exit(1)
AfterValidate(valid) == IF valid THEN "authenticate" ELSE "exit1"

\* authenticate_google_drive has no handler around it in __main__: an
\* exception ends the process
AfterAuthenticate_Swallowed(outcome) == "walk"

AfterAuthenticate(outcome) == IF outcome = "ok" THEN "walk" ELSE "crashed"

\* what upload_directory hands back: "return" without a value, or the end
\* of the function
upload_directory_result == None

Validate ==
  /\ pc = "validate"
  /\ \E valid \in BOOLEAN :
       /\ pc' = AfterValidate(valid)
       /\ validated_data' = IF valid THEN InputData ELSE validated_data
       /\ log' = IF valid THEN log ELSE Append(log, <<"Input validation error">>)
  /\ UNCHANGED <<fsdirs, nfiles, parent_folder_id, stack, root, visited, seg, fpos,
                 current_folder_id, calls, service, run, run_first, copyvars>>

Authenticate ==
  /\ pc = "authenticate"
  /\ \E outcome \in {"ok", "error"} :
       /\ pc' = AfterAuthenticate(outcome)
       /\ service' = IF outcome = "ok" THEN DriveService ELSE service
  /\ UNCHANGED <<fsdirs, nfiles, parent_folder_id, stack, root, visited, seg, fpos,
                 current_folder_id, calls, log, validated_data, run, run_first, copyvars>>

\* the try around upload_directory: the completion message when it returns,
\* the error message when an exception leaves it
Complete ==
  /\ pc \in {"done", "raised"}
  /\ log' = IF pc = "done" THEN Append(log, <<"Upload complete!">>)
            ELSE Append(log, <<"An error occurred during the upload process">>)
  /\ pc' = "exit0"
  /\ UNCHANGED <<fsdirs, nfiles, parent_folder_id, stack, root, visited, seg, fpos,
                 current_folder_id, calls, mainvars, copyvars>>

MainNext == Validate \/ Authenticate \/ Walk \/ Return \/ CreateFolder \/ UploadFile \/ Complete

MainSpec == MainInit /\ [][MainNext]_vars

\* ---- the mirror run a second time ----
\* upload_directory is called again with the same local_directory and the
\* same parent_folder_id, after a first run without a failed call; the remote
\* store keeps what the first run created
RunAgain ==
  /\ pc = "done"
  /\ run = 1
  /\ \A i \in DOMAIN calls : calls[i].result # None
  /\ run' = 2
  /\ run_first' = Len(calls)
  /\ pc' = "walk"
  /\ stack' = <<local_directory>>
  /\ root' = local_directory
  /\ visited' = <<>>
  /\ seg' = 1
  /\ fpos' = 1
  /\ current_folder_id' = None
  /\ UNCHANGED <<fsdirs, nfiles, parent_folder_id, calls, log, validated_data, service, copyvars>>

TwiceNext == Walk \/ Return \/ CreateFolder \/ UploadFile \/ RunAgain

TwiceSpec == Init /\ [][TwiceNext]_vars

\* ---- copy_files.py: copy the files a manifest names ----
CopyNames == {"x", "y"}           \* file names of manifests and input directories

SeqsUpTo(S, n) == UNION {[1..k -> S] : k \in 0..n}

\* copy_files is called: nothing of the mirror is running
CopyInit ==
  /\ fsdirs = {local_directory}
  /\ nfiles = [D \in {local_directory} |-> 0]
  /\ parent_folder_id = None
  /\ stack = <<>>
  /\ root = local_directory
  /\ visited = <<>>
  /\ seg = 1
  /\ fpos = 1
  /\ current_folder_id = None
  /\ pc = "idle"
  /\ calls = <<>>
  /\ log = <<>>
  /\ validated_data = None
  /\ service = None
  /\ run = 1
  /\ run_first = 0
  /\ file_list \in SeqsUpTo(CopyNames, MaxList)
  /\ indir \in SeqsUpTo(SUBSET CopyNames, MaxInDirs + 1)
  /\ cpos = 1
  /\ cpc = "search"
  /\ cfile_path = None
  /\ handled = <<>>

\* find_file: the first directory, in the order of os.walk, that has a file
\* of that name (its number stands for os.path.join(root, file_name)), or None
find_file_LastMatch(file_name, directory) ==
  LET hits == {k \in DOMAIN directory : file_name \in directory[k]}
  IN  IF hits = {} THEN None ELSE CHOOSE k \in hits : \A h \in hits : h <= k

find_file(file_name, directory) ==
  LET hits == {k \in DOMAIN directory : file_name \in directory[k]}
  IN  IF hits = {} THEN None ELSE CHOOSE k \in hits : \A h \in hits : k <= h

\* "except Exception as e: print(...)" around shutil.copy
CopyCheck_Raise(outcome) == IF outcome = "error" THEN "raise" ELSE "continue"

CopyCheck(outcome) == "continue"

\* one name of the manifest: print, search, and the branch for a name that
\* is not found or whose search raised
Search ==
  /\ cpc = "search"
  /\ cpos <= Len(file_list)
  /\ \E outcome \in {"ok", "error"} :
       LET file_name == file_list[cpos]
           found == find_file(file_name, indir)
           said == Append(log, <<"Searching for file", file_name>>)
       IN  IF outcome = "error"
           THEN /\ log' = Append(said, <<"Error searching for file", file_name>>)
                /\ handled' = Append(handled, [name |-> file_name, what |-> "search error",
                                               src |-> None])
                /\ cpos' = cpos + 1
                /\ UNCHANGED <<cpc, cfile_path>>
           ELSE IF found # None
           THEN /\ log' = Append(said, <<"File found", file_name>>)
                /\ cfile_path' = found
                /\ cpc' = "copy"
                /\ UNCHANGED <<cpos, handled>>
           ELSE /\ log' = Append(said, <<"File not found", file_name>>)
                /\ cfile_path' = found
                /\ handled' = Append(handled, [name |-> file_name, what |-> "not found",
                                               src |-> None])
                /\ cpos' = cpos + 1
                /\ UNCHANGED cpc
  /\ UNCHANGED <<fsdirs, nfiles, parent_folder_id, stack, root, visited, seg, fpos,
                 current_folder_id, pc, calls, mainvars, file_list, indir>>

\* shutil.copy(file_path, output_dir) for the name that was found
Copy ==
  /\ cpc = "copy"
  /\ \E outcome \in {"ok", "error"} :
       LET file_name == file_list[cpos]
       IN  IF CopyCheck(outcome) = "raise"
           THEN /\ cpc' = "raised"
                /\ UNCHANGED <<cpos, handled, log>>
           ELSE /\ handled' = Append(handled,
                                     [name |-> file_name,
                                      what |-> IF outcome = "ok" THEN "copied" ELSE "copy error",
                                      src |-> cfile_path])
                /\ log' = Append(log, <<IF outcome = "ok" THEN "File copied"
                                        ELSE "Error copying file", file_name>>)
                /\ cpos' = cpos + 1
                /\ cpc' = "search"
  /\ UNCHANGED <<fsdirs, nfiles, parent_folder_id, stack, root, visited, seg, fpos,
                 current_folder_id, pc, calls, mainvars, file_list, indir, cfile_path>>

\* the manifest is exhausted: copy_files returns
CopyReturn ==
  /\ cpc = "search"
  /\ cpos > Len(file_list)
  /\ cpc' = "returned"
  /\ UNCHANGED <<fsdirs, nfiles, parent_folder_id, stack, root, visited, seg, fpos,
                 current_folder_id, pc, calls, log, mainvars, file_list, indir, cpos,
                 cfile_path, handled>>

CopyNext == Search \/ Copy \/ CopyReturn

\* copy_files runs to its end: Python executes the next statement
CopySpec == CopyInit /\ [][CopyNext]_vars /\ WF_vars(CopyNext)

\* ---- reading the history of remote calls ----
Creates == {i \in DOMAIN calls : calls[i].op = "createFolder"}

Uploads == {i \in DOMAIN calls : calls[i].op = "uploadFile"}

Failed(i) == calls[i].result = None

AllSucceeded == \A i \in DOMAIN calls : ~Failed(i)

\* the names of a local directory below the mirror root, top first
SegmentsOf(path) == IF path = local_directory THEN <<>> ELSE split(relpath(path, local_directory))

\* the local directory that createFolder call i creates a folder for
SegDir(i) == AbsPath(SubSeq(split(relpath(calls[i].root, local_directory)), 1, calls[i].pos))

\* the remote folder that receives the files of local directory D: the
\* mirror root maps to parent_folder_id, any other directory to the folder
\* created for its last segment while it was visited
FolderOf(D) ==
  IF D = local_directory THEN parent_folder_id
  ELSE calls[CHOOSE i \in Creates : calls[i].root = D /\ SegDir(i) = D].result

\* the remote parent of the folder that a createFolder call returned as id
RemoteParent(id) == calls[CHOOSE i \in Creates : calls[i].result = id].parent

\* the visit of directory D is over
Finished(D) ==
  /\ \E k \in DOMAIN visited : visited[k] = D
  /\ root # D \/ pc \in {"walk", "done"}

\* the folders of names[1..k] were created one under the other, top first
\* below parent_folder_id, by successful calls before call j, the last of
\* them returning id
RECURSIVE HasChain(_, _, _, _)
HasChain(names, k, id, j) ==
  IF k = 0 THEN id = parent_folder_id
  ELSE \E i \in Creates :
         /\ i < j
         /\ ~Failed(i)
         /\ calls[i].result = id
         /\ calls[i].name = names[k]
         /\ HasChain(names, k - 1, calls[i].parent, i)

\* ---- the claims ----

\* C1 (as claimed; the code violates it): after a run in which every call
\* succeeded, each directory below the root has exactly one remote folder,
\* and the folder of a directory E whose parent D is below the root has the
\* folder of D as its remote parent.
C1_SameStructure ==
  (pc = "done" /\ AllSucceeded) =>
    /\ \A D \in fsdirs \ {local_directory} :
         Cardinality({i \in Creates : SegDir(i) = D}) = 1
    /\ \A D \in fsdirs \ {local_directory} : \A n \in listdir(D) :
         RemoteParent(FolderOf(join(D, n))) = FolderOf(D)

\* C2 (as claimed; the code violates it): when the run is over and a
\* createFolder failed while directory D was resolved, every file of every
\* directory outside the subtree of D has been passed to uploadFile.
C2_SiblingsStillUploaded ==
  pc = "done" =>
    \A i \in Creates : Failed(i) =>
      \A S \in fsdirs :
        (~IsPrefix(calls[i].root, S) /\ ~\E m \in Creates : Failed(m) /\ calls[m].root = S)
          => \A k \in 1..nfiles[S] :
               \E j \in Uploads : calls[j].root = S /\ calls[j].pos = k

\* C3: if a createFolder call failed while directory D was resolved, no
\* uploadFile call of the run is for a file in D or in a directory below D.
C3_NoUploadUnderFailedDir ==
  \A i \in Creates : Failed(i) =>
    \A j \in Uploads : ~IsPrefix(calls[i].root, calls[j].root)

C3_Witness ==
  /\ pc = "done"
  /\ Uploads # {}
  /\ \E i \in Creates : Failed(i) /\ nfiles[calls[i].root] > 0

\* C4: every uploadFile for a file of directory D comes after successful
\* createFolder calls for all the segments from the mirror root down to D,
\* each under the folder the one before returned and the first under
\* parent_folder_id, and its parent is the id the last of them returned; a
\* file of the mirror root is uploaded under parent_folder_id.
C4_UploadAfterChain ==
  \A j \in Uploads :
    LET names == SegmentsOf(calls[j].root)
    IN  HasChain(names, Len(names), calls[j].parent, j)

C4_Witness ==
  /\ pc = "done"
  /\ \E j \in Uploads : Len(SegmentsOf(calls[j].root)) >= 2 /\ ~Failed(j)
  /\ \E i \in DOMAIN calls : Failed(i)

\* C5: when uploadFile failed for a file of directory D, every file of D is
\* attempted by the time the visit of D is over, and a run without a
\* createFolder failure visits every directory and attempts every file,
\* whichever uploads failed.
C5_UploadFailureIsolated ==
  /\ \A j \in Uploads : (Failed(j) /\ Finished(calls[j].root)) =>
       \A k \in 1..nfiles[calls[j].root] :
         \E m \in Uploads : calls[m].root = calls[j].root /\ calls[m].pos = k
  /\ (pc = "done" /\ \A i \in Creates : ~Failed(i)) =>
       \A D \in fsdirs :
         /\ \E k \in DOMAIN visited : visited[k] = D
         /\ \A k \in 1..nfiles[D] : \E m \in Uploads : calls[m].root = D /\ calls[m].pos = k

C5_Witness ==
  /\ pc = "done"
  /\ \E j \in Uploads :
       /\ Failed(j)
       /\ \E m \in Uploads : m > j /\ calls[m].root = calls[j].root
       /\ \E m \in DOMAIN calls : m > j /\ calls[m].root # calls[j].root

\* C6 (as claimed; the code violates it): for a tree without files, a run in
\* which every call succeeded issued as many createFolder calls as the tree
\* has directories below the mirror root.
C6_CreatesEqualDirs ==
  (pc = "done" /\ AllSucceeded /\ \A D \in fsdirs : nfiles[D] = 0) =>
    Cardinality(Creates) = Cardinality(fsdirs) - 1

\* C7 (as claimed; the code violates it): no two createFolder calls of a run
\* are for the same local directory, and no two uploadFile calls are for the
\* same local file.
C7_AtMostOncePerItem ==
  /\ \A i, j \in Creates : i # j => SegDir(i) # SegDir(j)
  /\ \A i, j \in Uploads :
       i # j => <<calls[i].root, calls[i].pos>> # <<calls[j].root, calls[j].pos>>

\* C8: no createFolder is issued while the mirror root is visited; a file of
\* the root is uploaded under parent_folder_id; the folder of a direct child
\* of the root is created under parent_folder_id and the files of that child
\* are uploaded under the id that call returned; in a tree of depth one a
\* folder is created only for a direct child, once, and a run in which every
\* call succeeded created exactly one folder per child.
C8_RootMapsToTopParent ==
  /\ \A i \in Creates :
       /\ calls[i].root # local_directory
       /\ calls[i].pos = 1 => calls[i].parent = parent_folder_id
  /\ \A j \in Uploads :
       /\ calls[j].root = local_directory => calls[j].parent = parent_folder_id
       /\ Len(SegmentsOf(calls[j].root)) = 1 =>
            \E i \in Creates :
              /\ i < j
              /\ calls[i].root = calls[j].root
              /\ calls[i].parent = parent_folder_id
              /\ ~Failed(i)
              /\ calls[j].parent = calls[i].result
  /\ (\A D \in fsdirs : Len(SegmentsOf(D)) <= 1) =>
       /\ \A i \in Creates : SegDir(i) = calls[i].root
       /\ \A i, j \in Creates : i # j => calls[i].root # calls[j].root
       /\ (pc = "done" /\ AllSucceeded) =>
            Cardinality(Creates) = Cardinality(fsdirs) - 1

C8_Witness ==
  /\ pc = "done"
  /\ AllSucceeded
  /\ parent_folder_id = CallerParentId
  /\ fsdirs = {local_directory, join(local_directory, "a")}
  /\ \A D \in fsdirs : nfiles[D] = 1
  /\ Cardinality(Uploads) = 2

\* the mirror root has no files and one subdirectory, whose createFolder
\* call (the first call of the run) failed
SingleSubdirFailed ==
  /\ nfiles[local_directory] = 0
  /\ Cardinality(listdir(local_directory)) = 1
  /\ calls # <<>>
  /\ calls[1].op = "createFolder"
  /\ Failed(1)

\* C9: when the mirror root has no files and a single subdirectory whose
\* createFolder call fails, the finished run has issued no uploadFile call
\* and has one failure, of the createFolder for that subdirectory, which is
\* what the two lines it printed name.
C9_SingleSubdirFailure ==
  (pc = "done" /\ SingleSubdirFailed) =>
    LET sub == CHOOSE n \in listdir(local_directory) : TRUE
    IN  /\ Uploads = {}
        /\ {i \in DOMAIN calls : Failed(i)} = {1}
        /\ calls[1].name = sub
        /\ calls[1].root = join(local_directory, sub)
        /\ log = <<<<"Error creating folder", sub>>, <<"Failed to create folder", sub>>>>

C9_Witness ==
  /\ pc = "done"
  /\ SingleSubdirFailed
  /\ \E D \in fsdirs : nfiles[D] > 0
  /\ Cardinality(fsdirs) > 2

\* C10: upload_directory always returns to its caller, whatever the tree and
\* whichever calls fail, and no exception leaves it.
C10_WalkCompletes == <>(pc = "done") /\ [](pc # "raised")

C10_Witness ==
  /\ pc = "done"
  /\ \E i \in Uploads : Failed(i)
  /\ \E i \in Creates : Failed(i)

FailedCalls == {i \in DOMAIN calls : Failed(i)}

\* C11 (as claimed; the code violates it): when the process ends after a run
\* in which remote calls failed, what upload_directory handed to its caller
\* is the number of failed createFolder and uploadFile calls.
C11_FailureCountReported ==
  (pc = "exit0" /\ FailedCalls # {}) =>
    upload_directory_result = Cardinality(FailedCalls)

\* C16: a remote call is issued, and a directory visited, only after
\* validate_inputs has returned its data and authentication has returned a
\* client, in that order; after a validation failure the process has exited
\* without a client and without a call; after an authentication failure it
\* has ended without a directory visited and without a call.
C16_ValidateThenAuthenticate ==
  /\ (calls # <<>> \/ visited # <<>>) => (validated_data # None /\ service # None)
  /\ pc \in {"walk", "resolve", "upload", "done", "raised", "exit0"} =>
       (validated_data # None /\ service # None)
  /\ service # None => validated_data # None
  /\ pc = "exit1" =>
       (validated_data = None /\ service = None /\ calls = <<>> /\ visited = <<>>)
  /\ pc = "crashed" =>
       (validated_data # None /\ service = None /\ calls = <<>> /\ visited = <<>>)

C16_Witness ==
  /\ pc = "exit0"
  /\ Creates # {}
  /\ Uploads # {}

\* C17: a failed createFolder is the last remote call of the run:
\* upload_directory has returned without an exception, and when the process
\* ends the last line printed is the completion message, as after a run
\* without failures.
C17_FirstCreateFailureEndsRun ==
  /\ \A i \in Creates : Failed(i) => (i = Len(calls) /\ pc \in {"done", "exit0"})
  /\ pc = "exit0" => log[Len(log)] = <<"Upload complete!">>

C17_Witness ==
  /\ pc = "exit0"
  /\ \E i \in Creates : Failed(i)
  /\ \E D \in fsdirs : ~\E k \in DOMAIN visited : visited[k] = D
  /\ log[Len(log)] = <<"Upload complete!">>

\* C13: the createFolder for the first segment of a directory gets
\* parent_folder_id as parent; the createFolder for a later segment is the
\* call right after the successful createFolder for the segment before, of
\* the same directory, and gets the id that call returned; after a failed
\* createFolder no further segment of that directory is created; the parent
\* of an uploadFile is parent_folder_id for the mirror root and otherwise the
\* id a successful createFolder for the last segment returned, so no parent
\* is ever taken from a failed call.
C13_ParentsThreaded ==
  /\ \A j \in Creates :
       /\ calls[j].pos = 1 => calls[j].parent = parent_folder_id
       /\ calls[j].pos > 1 =>
            /\ j > 1
            /\ calls[j - 1].op = "createFolder"
            /\ calls[j - 1].root = calls[j].root
            /\ calls[j - 1].pos = calls[j].pos - 1
            /\ ~Failed(j - 1)
            /\ calls[j].parent = calls[j - 1].result
       /\ Failed(j) => \A m \in DOMAIN calls : m > j => calls[m].root # calls[j].root
  /\ \A j \in Uploads :
       IF calls[j].root = local_directory
       THEN calls[j].parent = parent_folder_id
       ELSE \E i \in Creates :
              /\ i < j
              /\ calls[i].root = calls[j].root
              /\ calls[i].pos = Len(SegmentsOf(calls[j].root))
              /\ ~Failed(i)
              /\ calls[j].parent = calls[i].result

C13_Witness ==
  /\ pc = "done"
  /\ \E i \in Creates : Failed(i) /\ calls[i].pos < Len(SegmentsOf(calls[i].root))
  /\ \E j \in Creates : calls[j].pos > 1 /\ ~Failed(j)

Depth == [D \in fsdirs |-> Len(SegmentsOf(D))]

\* C14: while every call succeeds, the visit of a directory d segments below
\* the mirror root issues exactly d createFolder calls, one per segment, top
\* first, the first under parent_folder_id, whatever was created for the
\* directories visited before; a finished run has issued as many
\* createFolder calls as the depths of its directories add up to.
C14_ChainRecomputed ==
  AllSucceeded =>
    /\ \A D \in fsdirs \ {local_directory} :
         (Finished(D) \/ (root = D /\ pc = "upload")) =>
           /\ Cardinality({i \in Creates : calls[i].root = D}) = Depth[D]
           /\ \A k \in 1..Depth[D] :
                \E i \in Creates :
                  /\ calls[i].root = D
                  /\ calls[i].pos = k
                  /\ calls[i].name = SegmentsOf(D)[k]
                  /\ k = 1 => calls[i].parent = parent_folder_id
    /\ pc = "done" => Cardinality(Creates) = SumOver(Depth, fsdirs)

C14_Witness ==
  /\ pc = "done"
  /\ AllSucceeded
  /\ Cardinality({D \in fsdirs : Depth[D] = 2}) >= 2
  /\ Cardinality(Creates) > Cardinality(fsdirs) - 1

\* C15: every remote call has returned before the next is issued, the calls
\* of one directory are issued together, and all the calls (and the visit)
\* of a directory come before those of any directory below it.
C15_SequentialPreOrder ==
  /\ \A i, j \in DOMAIN calls :
       (calls[i].root # calls[j].root /\ IsPrefix(calls[i].root, calls[j].root)) => i < j
  /\ \A i, j \in DOMAIN calls :
       (i < j /\ calls[i].root = calls[j].root) =>
         \A m \in i..j : calls[m].root = calls[i].root
  /\ \A k, l \in DOMAIN visited :
       (visited[k] # visited[l] /\ IsPrefix(visited[k], visited[l])) => k < l
  /\ \A i \in DOMAIN calls : calls[i].result = None \/ calls[i].result = CallerParentId + i

C15_Witness ==
  /\ pc = "done"
  /\ \E i, j \in DOMAIN calls :
       /\ calls[i].root # local_directory
       /\ calls[i].root # calls[j].root
       /\ IsPrefix(calls[i].root, calls[j].root)
       /\ calls[i].op = "uploadFile"

FirstRun == 1..run_first

SecondRun == (run_first + 1)..Len(calls)

\* the same call: the same operation for the same local item under the same
\* name
SameCall(i, j) ==
  /\ calls[i].op = calls[j].op
  /\ calls[i].root = calls[j].root
  /\ calls[i].pos = calls[j].pos
  /\ calls[i].name = calls[j].name

\* C12: after two runs on the same tree with the same parent_folder_id in
\* which every call succeeded, the second run has issued each call of the
\* first run again, as many times, no call of the second run has an id the
\* first run returned as parent, and every call returned an id of its own:
\* the remote store holds every folder and file of the first run twice.
C12_SecondRunDuplicates ==
  (run = 2 /\ pc = "done" /\ AllSucceeded) =>
    /\ Len(calls) = 2 * run_first
    /\ \A i \in FirstRun :
         Cardinality({j \in SecondRun : SameCall(i, j)})
           = Cardinality({j \in FirstRun : SameCall(i, j)})
    /\ \A j \in SecondRun :
         \/ calls[j].parent = parent_folder_id
         \/ \E m \in SecondRun : m < j /\ calls[m].result = calls[j].parent
    /\ \A j \in SecondRun : \A i \in FirstRun :
         calls[j].parent = calls[i].result => calls[j].parent = parent_folder_id
    /\ Cardinality({calls[i].result : i \in DOMAIN calls}) = 2 * run_first

C12_Witness ==
  /\ run = 2
  /\ pc = "done"
  /\ AllSucceeded
  /\ \E i \in FirstRun : calls[i].op = "createFolder" /\ calls[i].pos = 2
  /\ \E i \in FirstRun : calls[i].op = "uploadFile" /\ calls[i].root # local_directory

\* the first directory of input_dir, in walk order, with a file of that name
FirstMatch(name, k) ==
  /\ k \in DOMAIN indir
  /\ name \in indir[k]
  /\ \A h \in 1..(k - 1) : name \notin indir[h]

\* what copy_files has done so far is in order: one entry of the history per
\* name already passed, in the order of the manifest; a copy was attempted
\* only from the first match, and only a name without a match was reported
\* as not found; once copy_files has returned every name has its entry.
CopyInOrder ==
  /\ cpc # "raised"
  /\ Len(handled) = cpos - 1
  /\ cpos <= Len(file_list) + 1
  /\ \A k \in DOMAIN handled :
       /\ handled[k].name = file_list[k]
       /\ handled[k].what \in {"copied", "copy error"} =>
            FirstMatch(handled[k].name, handled[k].src)
       /\ handled[k].what = "not found" =>
            \A h \in DOMAIN indir : handled[k].name \notin indir[h]
  /\ cpc = "copy" => FirstMatch(file_list[cpos], cfile_path)
  /\ cpc = "returned" => Len(handled) = Len(file_list)

\* C18: copy_files handles the names of the manifest in list order, with at
\* most one copy attempt for each listed name, from the first match of the
\* walk; a name not found, a search that raises or a copy that fails leaves
\* the remaining names to be handled, and copy_files returns after the last.
C18_CopyFilesProcessesAll == [](CopyInOrder) /\ <>(cpc = "returned")

C18_Witness ==
  /\ cpc = "returned"
  /\ Len(handled) >= 2
  /\ handled[1].what \in {"copy error", "search error", "not found"}
  /\ handled[2].what = "copied"
  /\ handled[2].src > 1
====
